---- MODULE Spec2Model ----
(***************************************************************************)
(* field_names: the two derive macros FieldNames and VariantNames.         *)
(*                                                                         *)
(* A generation request is one call of derive_field_names or               *)
(* derive_variant_names (src/src/lib.rs) on one declaration.  The call     *)
(* decodes the declaration into a Receiver (the FromDeriveInput derive of  *)
(* fields.rs / variants.rs), and then either quotes the receiver           *)
(* (Receiver::to_tokens, which filters the members and emits the impl      *)
(* block) or writes the decode errors.                                     *)
(*                                                                         *)
(* Option<T> is modelled as a sequence of length at most one.              *)
(***************************************************************************)
EXTENDS Integers, Sequences, FiniteSets, TLC

\* Bounds of the model.
MaxMembers == 2
UnitMaxMembers == 1

None == <<>>
Some(x) == <<x>>

\* Member names: two spellings that differ in case, so that reordering,
\* deduplication (<<hello, hello>>) and case folding are all observable.
Idents == {"hello", "World"}
TypeIdents == {"Example"}
GenericsSet == {"<T>"}

\* darling::ast::Style: the shape of a field list.
Styles == {"Named", "Tuple", "Unit"}

\* One nested meta item of a #[field_names(..)] / #[variant_names(..)]
\* attribute: a bare word (`skip`, `rename`) or a name-value pair
\* (`skip = true`, `skip = false`, `skip = 3`).
MetaItems ==
    { [path |-> "skip",   kind |-> "Path",      lit |-> ""],
      [path |-> "skip",   kind |-> "NameValue", lit |-> "true"],
      [path |-> "skip",   kind |-> "NameValue", lit |-> "false"],
      [path |-> "skip",   kind |-> "NameValue", lit |-> "3"],
      [path |-> "rename", kind |-> "Path",      lit |-> ""] }

\* The items a member carries under the tool's namespace: none (no
\* annotation, or an empty one), or one item.
AttrLists == {<<>>} \cup { <<m>> : m \in MetaItems }

SeqsUpTo(S, n) == UNION { [1..k -> S] : k \in 0..n }

NamedFields == [ident : {Some(i) : i \in Idents}, attrs : AttrLists, style : {"Unit"}]
TupleFields == [ident : {None}, attrs : AttrLists, style : {"Unit"}]
Variants    == [ident : {Some(i) : i \in Idents}, attrs : AttrLists, style : Styles]

\* syn::DeriveInput: ident, generics and data (Struct with a field list of
\* some style, Enum with variants, Union with named fields).
DeclarationsUpTo(n) ==
    LET Mk(data, style, ms) ==
            [ident : TypeIdents, generics : GenericsSet, data : {data},
             style : {style}, members : ms]
    IN       Mk("Struct", "Named", SeqsUpTo(NamedFields, n))
        \cup Mk("Struct", "Tuple", SeqsUpTo(TupleFields, n))
        \cup Mk("Struct", "Unit",  {<<>>})
        \cup Mk("Enum",   "Unit",  SeqsUpTo(Variants, n))
        \cup Mk("Union",  "Named", SeqsUpTo(NamedFields, n))

Declarations == DeclarationsUpTo(MaxMembers)

Extractors == {"FieldNames", "VariantNames"}

VARIABLES
    ext,            \* which derive macro the request invokes
    decl,           \* the request's declaration (the DeriveInput)
    pc,             \* "start" | "decoded" | "done"
    decoded,        \* the result of from_derive_input
    output,         \* what the request hands back: fragment / diagnostic
    ran,            \* the stages that ran for this request
    panicked,       \* the message of the panic that ended the request, or ""
    unionPanics,    \* the build: darling answers a union by a panic (else by Err)
    remembered,     \* an earlier request of the compilation unit and its output
    failedBefore    \* an earlier request of the unit ended in a diagnostic

vars == <<ext, decl, pc, decoded, output, ran, panicked, unionPanics,
          remembered, failedBefore>>

------------------------------------------------------------------------------
\* Decode: the derived FromField / FromVariant / FromDeriveInput impls.

\* `skip: bool`: darling reads a bool from a bare word (true) or from a
\* boolean literal; any other literal is an error.
FromMetaBool(item) ==
    IF item.kind = "Path" THEN [ok |-> TRUE, value |-> TRUE]
    ELSE IF item.lit = "true" THEN [ok |-> TRUE, value |-> TRUE]
    ELSE IF item.lit = "false" THEN [ok |-> TRUE, value |-> FALSE]
    ELSE [ok |-> FALSE, value |-> FALSE]

\* The attribute parser of a member: the only field read from the
\* namespace is `skip`; any other name is an unknown field.
\* acc = [skip : Option<bool>, errors : set of error kinds].
RECURSIVE ParseItemsMutIgnoreUnknown(_, _)
ParseItemsMutIgnoreUnknown(items, acc) ==
    IF items = <<>> THEN acc
    ELSE LET item == Head(items)
             r == FromMetaBool(item)
             next ==
                IF item.path # "skip" THEN acc
                ELSE IF acc.skip # None
                    THEN [acc EXCEPT !.errors = @ \cup {"DuplicateField"}]
                ELSE IF r.ok THEN [acc EXCEPT !.skip = Some(r.value)]
                ELSE [acc EXCEPT !.errors = @ \cup {"UnexpectedType"}]
         IN ParseItemsMutIgnoreUnknown(Tail(items), next)

RECURSIVE ParseItems(_, _)
ParseItems(items, acc) ==
    IF items = <<>> THEN acc
    ELSE LET item == Head(items)
             r == FromMetaBool(item)
             next ==
                IF item.path # "skip"
                    THEN [acc EXCEPT !.errors = @ \cup {"UnknownField"}]
                ELSE IF acc.skip # None
                    THEN [acc EXCEPT !.errors = @ \cup {"DuplicateField"}]
                ELSE IF r.ok THEN [acc EXCEPT !.skip = Some(r.value)]
                ELSE [acc EXCEPT !.errors = @ \cup {"UnexpectedType"}]
         IN ParseItems(Tail(items), next)

\* #[darling(default)] skip: bool -- false when the item is absent.
ParseAttrs(attrs) ==
    LET acc == ParseItems(attrs, [skip |-> None, errors |-> {}])
    IN [skip |-> IF acc.skip = None THEN FALSE ELSE acc.skip[1],
        errors |-> acc.errors]

\* ReceiverField { ident: Option<Ident>, skip: bool }
FromField(f) ==
    LET p == ParseAttrs(f.attrs)
    IN [errors |-> p.errors, value |-> [ident |-> f.ident, skip |-> p.skip]]

\* ReceiverVariant { ident: Ident, skip: bool }; the variant's own fields
\* are not read.
FromVariant(v) ==
    LET p == ParseAttrs(v.attrs)
    IN [errors |-> p.errors, value |-> [ident |-> v.ident, skip |-> p.skip]]

NoReceiver == [ident |-> "", generics |-> "", data |-> "None", members |-> <<>>]

Ok(r)   == [tag |-> "Ok",    errors |-> {}, value |-> r]
Err(es) == [tag |-> "Err",   errors |-> es, value |-> NoReceiver]
Panic   == [tag |-> "Panic", errors |-> {}, value |-> NoReceiver]

\* How the derived impls answer a union: inside darling, an error or a
\* panic depending on the build; never a receiver.
UnionResult == IF unionPanics THEN Panic ELSE Err({"UnsupportedShape"})

DecodeFields(ms) == [i \in 1..Len(ms) |-> FromField(ms[i])]
DecodeVariants(ms) == [i \in 1..Len(ms) |-> FromVariant(ms[i])]
MemberErrors(rs) == UNION { rs[i].errors : i \in 1..Len(rs) }
MemberValues(rs) == [i \in 1..Len(rs) |-> rs[i].value]

\* #[darling(supports(struct_named))]
FieldsSupportsMutStructAny(d) == d.data = "Struct"

FieldsSupports(d) == d.data = "Struct" /\ d.style = "Named"

\* #[darling(supports(enum_any))]: every variant style is accepted.
VariantsSupportsMutAny(d) == TRUE

VariantsSupportsMutEnumUnit(d) ==
    d.data = "Enum" /\ \A i \in 1..Len(d.members) : d.members[i].style = "Unit"

VariantsSupports(d) ==
    d.data = "Enum" /\ \A i \in 1..Len(d.members) : d.members[i].style \in Styles

\* fields::Receiver::from_derive_input; data: Data<(), ReceiverField>.
FieldsFromDeriveInput(d) ==
    LET shape == IF FieldsSupports(d) THEN {} ELSE {"UnsupportedShape"}
        fs == IF d.data = "Struct" THEN DecodeFields(d.members) ELSE <<>>
        errs == shape \cup MemberErrors(fs)
    IN IF d.data = "Union" THEN UnionResult
       ELSE IF errs # {} THEN Err(errs)
       ELSE Ok([ident |-> d.ident, generics |-> d.generics, data |-> d.data,
                members |-> MemberValues(fs)])

\* variants::Receiver::from_derive_input; data: Data<ReceiverVariant, ()>.
VariantsFromDeriveInput(d) ==
    LET shape == IF VariantsSupports(d) THEN {} ELSE {"UnsupportedShape"}
        vs == IF d.data = "Enum" THEN DecodeVariants(d.members) ELSE <<>>
        errs == shape \cup MemberErrors(vs)
    IN IF d.data = "Union" THEN UnionResult
       ELSE IF errs # {} THEN Err(errs)
       ELSE Ok([ident |-> d.ident, generics |-> d.generics, data |-> d.data,
                members |-> MemberValues(vs)])

------------------------------------------------------------------------------
\* Filter & Order, Emit.

NotSkipped(m) == ~m.skip
IsSkipped(m) == m.skip

NoNames == [panic |-> "", names |-> <<>>]

\* Receiver::fields_to_emit: take_struct().expect(..), filter(!skip),
\* map(name) where ReceiverField::name expects an ident.
FieldsToEmitMutKeepSkipped(r) ==
    IF r.data # "Struct"
        THEN [NoNames EXCEPT !.panic = "FieldNames only supports named structs"]
    ELSE LET kept == SelectSeq(r.members, IsSkipped)
         IN IF \E i \in 1..Len(kept) : kept[i].ident = None
                THEN [NoNames EXCEPT !.panic = "FieldNames only supports named fields"]
            ELSE [NoNames EXCEPT !.names = [i \in 1..Len(kept) |-> kept[i].ident[1]]]

FieldsToEmitMutNoFilter(r) ==
    IF r.data # "Struct"
        THEN [NoNames EXCEPT !.panic = "FieldNames only supports named structs"]
    ELSE LET kept == r.members
         IN IF \E i \in 1..Len(kept) : kept[i].ident = None
                THEN [NoNames EXCEPT !.panic = "FieldNames only supports named fields"]
            ELSE [NoNames EXCEPT !.names = [i \in 1..Len(kept) |-> kept[i].ident[1]]]

fields_to_emit(r) ==
    IF r.data # "Struct"
        THEN [NoNames EXCEPT !.panic = "FieldNames only supports named structs"]
    ELSE LET kept == SelectSeq(r.members, NotSkipped)
         IN IF \E i \in 1..Len(kept) : kept[i].ident = None
                THEN [NoNames EXCEPT !.panic = "FieldNames only supports named fields"]
            ELSE [NoNames EXCEPT !.names = [i \in 1..Len(kept) |-> kept[i].ident[1]]]

\* Receiver::variants_to_emit: take_enum().expect(..), filter(!skip),
\* map(ident.to_string()).
variants_to_emit(r) ==
    IF r.data # "Enum"
        THEN [NoNames EXCEPT !.panic = "VariantNames only takes enums"]
    ELSE LET kept == SelectSeq(r.members, NotSkipped)
         IN [NoNames EXCEPT !.names = [i \in 1..Len(kept) |-> kept[i].ident[1]]]

\* let fields_len = fields.len();
FieldsLenMutAllMembers(r, names) == Len(r.members)

fields_len(r, names) == Len(names)

variants_len(r, names) == Len(names)

\* The impl block: impl #impl_generics #ident #ty_generics #where_clause
\* { const FIELDS: [&'static str; #fields_len] = [ #(#fields),* ]; }
Fragment(r, const, len, names) ==
    [ident |-> r.ident, generics |-> r.generics, const |-> const,
     len |-> len, elems |-> names]

NoOutput == [fragment |-> None, diagnostic |-> {}]

\* <fields::Receiver as ToTokens>::to_tokens
FieldsToTokens(r) ==
    LET e == fields_to_emit(r)
    IN IF e.panic # "" THEN [panic |-> e.panic, out |-> NoOutput]
       ELSE [panic |-> "",
             out |-> [NoOutput EXCEPT !.fragment =
                        Some(Fragment(r, "FIELDS", fields_len(r, e.names), e.names))]]

\* <variants::Receiver as ToTokens>::to_tokens
VariantsToTokens(r) ==
    LET e == variants_to_emit(r)
    IN IF e.panic # "" THEN [panic |-> e.panic, out |-> NoOutput]
       ELSE [panic |-> "",
             out |-> [NoOutput EXCEPT !.fragment =
                        Some(Fragment(r, "VARIANTS", variants_len(r, e.names), e.names))]]

\* A panic inside the macro: the host reports it and splices nothing.
HostPanicOutput == [NoOutput EXCEPT !.diagnostic = {"ProcMacroPanicked"}]

\* err.write_errors(): one compile error per decode error, no fragment.
WriteErrorsOutputMutOnlyFirstFailure(res) ==
    IF failedBefore THEN NoOutput ELSE [NoOutput EXCEPT !.diagnostic = res.errors]

WriteErrorsOutputMutKeepsFragment(res) ==
    [fragment |-> Some(Fragment(res.value, "FIELDS", 0, <<>>)),
     diagnostic |-> res.errors]

WriteErrorsOutput(res) == [NoOutput EXCEPT !.diagnostic = res.errors]

------------------------------------------------------------------------------
\* The requests.

FromDeriveInput(e, d) ==
    IF e = "FieldNames" THEN FieldsFromDeriveInput(d) ELSE VariantsFromDeriveInput(d)

ToTokens(e, r) ==
    IF e = "FieldNames" THEN FieldsToTokens(r) ELSE VariantsToTokens(r)

\* The whole of derive_field_names / derive_variant_names as a function of
\* the build and the input: from_derive_input(..).map(quote).unwrap_or_else(
\* write_errors).
Derive(e, d) ==
    LET res == FromDeriveInput(e, d)
    IN CASE res.tag = "Panic" -> HostPanicOutput
         [] res.tag = "Err" -> WriteErrorsOutput(res)
         [] OTHER -> LET t == ToTokens(e, res.value)
                     IN IF t.panic # "" THEN HostPanicOutput ELSE t.out

Fresh(e, d) ==
    /\ ext = e
    /\ decl = d
    /\ pc = "start"
    /\ decoded = Err({})
    /\ output = NoOutput
    /\ ran = {}
    /\ panicked = ""

\* One request on any declaration.  The build only shows on a union.
Init ==
    /\ \E e \in Extractors, d \in Declarations : Fresh(e, d)
    /\ unionPanics \in (IF decl.data = "Union" THEN BOOLEAN ELSE {FALSE})
    /\ remembered = None
    /\ failedBefore = FALSE

\* derive_field_names: fields::Receiver::from_derive_input(&input)
DeriveFieldNamesDecode ==
    /\ pc = "start" /\ ext = "FieldNames"
    /\ decoded' = FieldsFromDeriveInput(decl)
    /\ ran' = ran \cup {"Decode"}
    /\ pc' = "decoded"
    /\ UNCHANGED <<ext, decl, output, panicked, unionPanics, remembered, failedBefore>>

\* derive_variant_names: variants::Receiver::from_derive_input(&input)
DeriveVariantNamesDecode ==
    /\ pc = "start" /\ ext = "VariantNames"
    /\ decoded' = VariantsFromDeriveInput(decl)
    /\ ran' = ran \cup {"Decode"}
    /\ pc' = "decoded"
    /\ UNCHANGED <<ext, decl, output, panicked, unionPanics, remembered, failedBefore>>

\* .map(|receiver| quote!(#receiver)) on Ok
Quote ==
    /\ pc = "decoded" /\ decoded.tag = "Ok"
    /\ LET t == ToTokens(ext, decoded.value)
       IN /\ panicked' = t.panic
          /\ output' = IF t.panic # "" THEN HostPanicOutput ELSE t.out
          /\ ran' = ran \cup (IF t.panic # "" THEN {"Filter"} ELSE {"Filter", "Emit"})
    /\ pc' = "done"
    /\ UNCHANGED <<ext, decl, decoded, unionPanics, remembered, failedBefore>>

\* .unwrap_or_else(|err| err.write_errors()) on Err
WriteErrors ==
    /\ pc = "decoded" /\ decoded.tag = "Err"
    /\ output' = WriteErrorsOutput(decoded)
    /\ pc' = "done"
    /\ UNCHANGED <<ext, decl, decoded, ran, panicked, unionPanics, remembered, failedBefore>>

\* The decode itself panicked (a union, in a build whose darling panics).
DecodePanicked ==
    /\ pc = "decoded" /\ decoded.tag = "Panic"
    /\ output' = HostPanicOutput
    /\ panicked' = "darling: union"
    /\ pc' = "done"
    /\ UNCHANGED <<ext, decl, decoded, ran, unionPanics, remembered, failedBefore>>

Next ==
    \/ DeriveFieldNamesDecode
    \/ DeriveVariantNamesDecode
    \/ Quote
    \/ WriteErrors
    \/ DecodePanicked

Spec == Init /\ [][Next]_vars

------------------------------------------------------------------------------
\* A compilation unit: the host invokes the macros once per annotated
\* declaration, one request after the other.  The declarations of a unit are
\* drawn from a smaller pool, so that pairs of requests can be compared.

UnitAttrLists ==
    { <<>>,
      << [path |-> "skip",   kind |-> "Path", lit |-> ""] >>,
      << [path |-> "rename", kind |-> "Path", lit |-> ""] >> }

UnitDeclarations ==
    { d \in DeclarationsUpTo(UnitMaxMembers) :
        /\ ~(d.data = "Struct" /\ d.style = "Tuple")
        /\ \A i \in 1..Len(d.members) :
              /\ d.members[i].ident = Some("hello")
              /\ d.members[i].style = "Unit"
              /\ d.members[i].attrs \in
                    (IF d.data = "Union" THEN {<<>>} ELSE UnitAttrLists) }

InitUnit ==
    /\ \E e \in Extractors, d \in UnitDeclarations : Fresh(e, d)
    /\ unionPanics \in BOOLEAN
    /\ remembered = None
    /\ failedBefore = FALSE

\* The host moves on to the unit's next annotated declaration (which may be
\* one it has expanded before).  Nothing of the finished request is handed
\* to the next one; `remembered` and `failedBefore` only record the history.
NextRequest ==
    /\ pc = "done"
    /\ \E e \in Extractors, d \in UnitDeclarations :
          /\ ext' = e
          /\ decl' = d
    /\ pc' = "start"
    /\ decoded' = Err({})
    /\ output' = NoOutput
    /\ ran' = {}
    /\ panicked' = ""
    /\ \/ remembered' = remembered
       \/ remembered' = Some([ext |-> ext, decl |-> decl, output |-> output,
                              afterFailure |-> failedBefore])
    /\ failedBefore' = (failedBefore \/ output.diagnostic # {})
    /\ UNCHANGED unionPanics

NextUnit == Next \/ NextRequest

SpecUnit == InitUnit /\ [][NextUnit]_vars

------------------------------------------------------------------------------
\* Vocabulary of the properties.

Members == decl.members
NMembers == Len(decl.members)
IsNamedStruct(d) == d.data = "Struct" /\ d.style = "Named"
IsEnum(d) == d.data = "Enum"
AcceptedShape(e, d) == IF e = "FieldNames" THEN IsNamedStruct(d) ELSE IsEnum(d)
Done == pc = "done"
Succeeded == output.fragment # None
Failed == output.fragment = None /\ output.diagnostic # {}
Emitted == output.fragment[1].elems
SkipWord == [path |-> "skip", kind |-> "Path", lit |-> ""]
\* The decoded skip flag of member i, and the members that are kept.
Flag(i) == decoded.value.members[i].skip
Kept == { i \in 1..NMembers : ~Flag(i) }
Rank(i) == Cardinality({ j \in Kept : j <= i })

\* C1: for an accepted declaration the emitted list is the subsequence of
\* the member names whose skip flag is false, in declaration order and
\* verbatim (the k-th kept member's name is the k-th element).
C1_EmittedIsKeptSubsequence ==
    (Done /\ decoded.tag = "Ok") =>
        /\ Succeeded
        /\ Len(decoded.value.members) = NMembers
        /\ Len(Emitted) = Cardinality(Kept)
        /\ \A i \in Kept : Emitted[Rank(i)] = Members[i].ident[1]

C1_Witness ==
    /\ Done /\ Succeeded /\ ext = "FieldNames" /\ NMembers = 2
    /\ Members[1].attrs = <<SkipWord>> /\ Members[1].ident = Some("hello")
    /\ Members[2].attrs = <<>>
    /\ Emitted = <<"World">>

\* C2: a declaration that is not of the extractor's shape (named-field
\* struct for FieldNames, enum for VariantNames) ends in an error raised at
\* Decode, with no fragment; Filter and Emit never run for it.
C2_WrongShapeIsDecodeError ==
    (Done /\ ~AcceptedShape(ext, decl)) => (Failed /\ ran = {"Decode"})

C2_Witness ==
    /\ Done /\ Failed /\ ext = "FieldNames"
    /\ decl.data = "Struct" /\ decl.style = "Tuple" /\ NMembers = 2
    /\ \A i \in 1..NMembers : Members[i].attrs = <<>>

\* C3: a member carrying an option other than skip makes the request end in
\* a decode error with no fragment, whatever the other members carry; for a
\* declaration of the accepted shape the error names the unknown option.
HasUnknownOption ==
    \E i \in 1..NMembers : \E k \in 1..Len(Members[i].attrs) :
        Members[i].attrs[k].path # "skip"

C3_UnknownOptionIsDecodeError ==
    (Done /\ HasUnknownOption) =>
        /\ Failed
        /\ ran = {"Decode"}
        /\ AcceptedShape(ext, decl) => "UnknownField" \in output.diagnostic

C3_Witness ==
    /\ Done /\ Failed /\ AcceptedShape(ext, decl) /\ NMembers = 2
    /\ Members[1].attrs = <<SkipWord>>
    /\ Members[2].attrs # <<>> /\ Members[2].attrs[1].path = "rename"
    /\ output.diagnostic = {"UnknownField"}

\* C4: skip is presence-only: a member that gives skip a value
\* (skip = true, skip = false) makes the request end in a decode error.
HasValuedSkip ==
    \E i \in 1..NMembers : \E k \in 1..Len(Members[i].attrs) :
        /\ Members[i].attrs[k].path = "skip"
        /\ Members[i].attrs[k].kind = "NameValue"
        /\ Members[i].attrs[k].lit \in {"true", "false"}

C4_ValuedSkipIsDecodeError ==
    (Done /\ HasValuedSkip) => Failed

\* C5: for an enum given to VariantNames, replacing the payload shapes of
\* its variants leaves the outcome unchanged, and the diagnostic of a
\* rejected enum never is the unsupported shape.
Repayloaded(d) ==
    { [d EXCEPT !.members = [i \in 1..Len(d.members) |->
                                [d.members[i] EXCEPT !.style = f[i]]]] :
        f \in [1..Len(d.members) -> Styles] }

C5_PayloadShapeIsIrrelevant ==
    (Done /\ ext = "VariantNames" /\ IsEnum(decl)) =>
        /\ "UnsupportedShape" \notin output.diagnostic
        /\ \A d2 \in Repayloaded(decl) : Derive(ext, d2) = output

C5_Witness ==
    /\ Done /\ Succeeded /\ ext = "VariantNames" /\ NMembers = 2
    /\ Members[1].style = "Tuple" /\ Members[2].style = "Named"
    /\ Emitted = <<"hello", "World">>

\* C6: a declaration of the accepted shape whose members all carry the bare
\* skip (or which has no member) succeeds with an empty list and no
\* diagnostic.
C6_AllSkippedIsEmptySuccess ==
    (Done /\ AcceptedShape(ext, decl)
          /\ \A i \in 1..NMembers : Members[i].attrs = <<SkipWord>>) =>
        /\ Succeeded
        /\ output.diagnostic = {}
        /\ output.fragment[1].len = 0
        /\ Emitted = <<>>

C6_Witness ==
    /\ Done /\ Succeeded /\ ext = "FieldNames" /\ NMembers = 2
    /\ \A i \in 1..NMembers : Members[i].attrs = <<SkipWord>>
    /\ output.fragment[1].len = 0

\* C7: in every fragment the declared array length equals the number of
\* elements written, and both equal the number of members not skipped.
C7_LengthMatchesElements ==
    (Done /\ Succeeded) =>
        /\ output.fragment[1].len = Len(Emitted)
        /\ output.fragment[1].len = Cardinality(Kept)

C7_Witness ==
    /\ Done /\ Succeeded /\ NMembers = 2
    /\ Flag(1) /\ ~Flag(2)
    /\ output.fragment[1].len = 1

\* C8: within a compilation unit, a request on a declaration that was
\* expanded before yields the same output as before, whatever ran in
\* between and whether or not an earlier request failed; and a request
\* that follows a failed one still yields its fragment or its diagnostic.
SameAsRemembered ==
    /\ remembered # None
    /\ remembered[1].ext = ext
    /\ remembered[1].decl = decl

C8_WitnessDiagnostic ==
    /\ Done /\ SameAsRemembered /\ Failed
    /\ ~remembered[1].afterFailure /\ failedBefore

\* C9: a finished request has either a fragment or a diagnostic, never
\* both and never neither; after a failed Decode only Decode ran and the
\* output is the diagnostic alone, after a successful one it is the
\* fragment alone; and an unfinished request can always take its next step.
C9_FragmentXorDiagnostic ==
    /\ Done =>
        /\ (output.fragment # None) # (output.diagnostic # {})
        /\ decoded.tag # "Ok" => (Failed /\ ran = {"Decode"})
        /\ decoded.tag = "Ok" => (Succeeded /\ output.diagnostic = {})
    /\ ~Done => ENABLED Next

C9_Witness ==
    /\ Done /\ decoded.tag = "Err" /\ Failed
    /\ AcceptedShape(ext, decl) /\ NMembers = 2

\* C10: a declaration that Decode accepts has the shape its extractor
\* takes and, for FieldNames, a name on every field, so the three expects
\* of the later stages never fire and Emit always runs.
ExpectMessages ==
    { "FieldNames only supports named structs",
      "FieldNames only supports named fields",
      "VariantNames only takes enums" }

C10_NoFailureAfterDecode ==
    /\ panicked \notin ExpectMessages
    /\ decoded.tag = "Ok" =>
        /\ decoded.value.data = (IF ext = "FieldNames" THEN "Struct" ELSE "Enum")
        /\ \A i \in 1..Len(decoded.value.members) :
              decoded.value.members[i].ident # None
    /\ (Done /\ decoded.tag = "Ok") => (Succeeded /\ "Emit" \in ran)

C10_Witness ==
    /\ Done /\ decoded.tag = "Ok" /\ "Emit" \in ran
    /\ ext = "VariantNames" /\ NMembers = 2
    /\ Succeeded

====
